---- MODULE Spec2Model ----
(***************************************************************************)
(* SafeDownloader of src/utils.py: a sequential batch downloader that      *)
(* probes the remote size with HEAD, skips, resumes or starts each item by *)
(* comparing the local and the remote size, streams the response body into *)
(* the destination file in chunks, and validates files against SHA-256     *)
(* hashes in a separate pass.                                              *)
(*                                                                         *)
(* Bytes are drawn from a two-letter alphabet, a file or a remote resource *)
(* is a finite sequence of bytes, and the HTTP server is the environment:  *)
(* it may or may not report content-length and may or may not honour Range.*)
(***************************************************************************)
EXTENDS Integers, Sequences, FiniteSets, TLC

\* ------------------------------------------------------------------ bounds
\* Longest remote resource and longest file found in the output directory.
MaxLen == 2
\* Largest file the output directory is followed to: a fetch that would grow
\* its file past this size is not explored.
MaxFile == 4
\* Bytes per chunk of r.iter_content(32 * self.block_size), scaled down.
ChunkSize == 1
\* Bytes per f.read(1000 * 1000) of validate_file, scaled down.
ReadSize == 2
\* Highest verbosity level and threshold tried on print_if / warn_if.
MaxVerbose == 3

Byte == {0, 1}

\* All byte strings of at most n bytes.
BytesUpTo(n) == UNION {[1..k -> Byte] : k \in 0..n}

\* Python's None for resume_byte_pos (an int otherwise, so -1 is free).
None == -1

\* Python truthiness of an optional int: None and 0 are both falsy.
Truthy(x) == x # None /\ x # 0

\* The batches (self.file_names) explored: one item, two items with distinct
\* names, two items that share a name.
Batches == {<<"a">>, <<"a", "b">>, <<"a", "a">>}

\* The url of each position; every position has a url of its own.
Urls == <<"u0", "u1">>

Names == {"a", "b"}

VARIABLES
    urls,            \* self.urls: the url of each position
    file_names,      \* self.file_names
    url_hashes,      \* self.url_hashes: [isNone, list]
    remote,          \* environment: the content the server holds for each url
    server,          \* environment: [length, range] what the server supports
    fs,              \* the output directory: name -> [exists, data]
    pc,              \* where the running pass stands; "idle" between passes
    position,        \* the loop variable of download() / validate()
    resume_byte_pos, \* downloader's parameter (None or the local size)
    mode,            \* the mode downloader opened the file in
    body,            \* the response bytes r.iter_content has not yet yielded
    reqs,            \* the requests the current download_file call has issued
    dmsg,            \* per position, the message of download_file in the last download()
    vres,            \* per position, the outcome of validate_file in the last validate()
    outcome,         \* how the last pass ended: [pass, result, exc]
    before,          \* history: the destination file as download_file found it
    stopped,         \* history: per position, how the last stopped fetch left the file
    helper           \* the last call of a module-level helper, with what it did

vars == <<urls, file_names, url_hashes, remote, server, fs, pc, position,
          resume_byte_pos, mode, body, reqs, dmsg, vres, outcome, before, stopped,
          helper>>

\* No helper has been called.
NoCall == [op |-> "none"]

config == <<urls, file_names, url_hashes, remote, server>>

\* ------------------------------------------------------------- byte strings
Take(s, n) == SubSeq(s, 1, IF n < Len(s) THEN n ELSE Len(s))
Drop(s, n) == SubSeq(s, (IF n < Len(s) THEN n ELSE Len(s)) + 1, Len(s))

IsPrefix(p, s) == Len(p) <= Len(s) /\ SubSeq(s, 1, Len(p)) = p

Absent == [exists |-> FALSE, data |-> <<>>]
File(d) == [exists |-> TRUE, data |-> d]


\* ------------------------------------------------------------------ server
\* int(r.headers.get('content-length', 0)) of a HEAD response: the size of the
\* resource, or 0 when the server sends no content-length.
content_length(url) == IF server.length THEN Len(remote[url]) ELSE 0

\* The body of a 416 Range Not Satisfiable response: empty, or an error page.
ErrorBodies == {<<>>, <<1>>}

\* The bodies requests.get(url, headers=resume_header) may stream: the whole
\* resource without a Range header or from a server that ignores it, the bytes
\* from the offset on from a server that honours it, and the body of a 416 when
\* the offset is not inside the resource.
ResponseBodies(url, range) ==
    IF range = None \/ ~server.range
    THEN {remote[url]}
    ELSE IF range < Len(remote[url])
         THEN {Drop(remote[url], range)}
         ELSE ErrorBodies

\* ----------------------------------------------------------------- hashing
\* hashlib.sha256 as a 16-bit running hash: update() folds the bytes of a chunk
\* into the state in order, hexdigest() prints the state in lowercase hex.
HashMod == 2 ^ 16
ShaInit == 0

RECURSIVE ShaUpdate(_, _)
ShaUpdate(h, chunk) ==
    IF chunk = <<>> THEN h
    ELSE ShaUpdate((h * 3 + Head(chunk) + 1) % HashMod, Tail(chunk))

HexDigit(d) ==
    <<"0", "1", "2", "3", "4", "5", "6", "7",
      "8", "9", "a", "b", "c", "d", "e", "f">>[d + 1]

hexdigest(h) ==
    <<HexDigit(h \div 4096), HexDigit((h \div 256) % 16),
      HexDigit((h \div 16) % 16), HexDigit(h % 16)>>

\* Variant: the loop body runs once, only the first chunk reaches the hash.
ReadLoop_FirstChunkOnly(sha, rest) == ShaUpdate(sha, Take(rest, ReadSize))

\* The chunks the read loop of validate_file gets from f.read(ReadSize), up to
\* the empty read that ends it.
RECURSIVE ReadChunks(_)
ReadChunks(rest) ==
    LET chunk == Take(rest, ReadSize)
    IN  IF chunk = <<>> THEN <<>>
        ELSE <<chunk>> \o ReadChunks(Drop(rest, ReadSize))

\* The read loop of validate_file: read ReadSize bytes, stop at the first empty
\* read, feed every other chunk to the hash.
RECURSIVE ReadLoop(_, _)
ReadLoop(sha, rest) ==
    LET chunk == Take(rest, ReadSize)
    IN  IF chunk = <<>> THEN sha
        ELSE ReadLoop(ShaUpdate(sha, chunk), Drop(rest, ReadSize))

\* The digest of a byte string hashed in one update() call: what the publisher
\* of a file lists as its hash.
OneShotDigest(data) == hexdigest(ShaUpdate(ShaInit, data))

\* ---------------------------------------------------------------- requests
HeadReq(url) == [method |-> "HEAD", url |-> url, range |-> None]
GetReq(url, range) == [method |-> "GET", url |-> url, range |-> range]

\* ------------------------------------------------------------------- state
\* The expected hash lists: a hash for a prefix of the positions, each either
\* the digest of the remote resource or the digest of some other content.
HashChoices(n) ==
    UNION {[1..k -> BOOLEAN] : k \in 0..n}

HashList(r, good) ==
    [i \in DOMAIN good |->
        IF good[i] THEN OneShotDigest(r[Urls[i]])
        ELSE OneShotDigest(r[Urls[i]] \o <<1>>)]

NoReport == [i \in 1..Len(file_names) |-> "none"]
NoOutcome == [pass |-> "none", result |-> "none", exc |-> "none"]

Init ==
    /\ file_names \in Batches
    /\ urls = SubSeq(Urls, 1, Len(file_names))
    /\ remote \in [{urls[i] : i \in 1..Len(urls)} ->
                    BytesUpTo(IF Len(urls) > 1 THEN MaxLen - 1 ELSE MaxLen)]
    /\ server \in [length : BOOLEAN, range : BOOLEAN]
    /\ \/ url_hashes = [isNone |-> TRUE, list |-> <<>>]
       \/ \E good \in HashChoices(Len(urls)) :
             /\ Len(urls) > 1 => \A i \in DOMAIN good : good[i]
             /\ url_hashes = [isNone |-> FALSE, list |-> HashList(remote, good)]
    /\ fs \in [Names -> {Absent} \cup {File(d) : d \in BytesUpTo(MaxLen)}]
    /\ \A n \in Names : (\A i \in 1..Len(file_names) : file_names[i] # n) => fs[n] = Absent
    /\ Len(urls) > 1 => \A n \in Names : fs[n] = Absent
    /\ pc = "idle"
    /\ position = 0
    /\ resume_byte_pos = None
    /\ mode = "none"
    /\ body = <<>>
    /\ reqs = <<>>
    /\ dmsg = NoReport
    /\ vres = NoReport
    /\ outcome = NoOutcome
    /\ before = Absent
    /\ stopped = NoReport
    /\ helper = NoCall

\* ---------------------------------------------------------- loop plumbing
\* The for loop of download() / validate() moves to the next position, or the
\* pass returns when position was the last one.
Advance(pass, next_pc) ==
    IF position + 1 < Len(urls)
    THEN /\ pc' = next_pc
         /\ position' = position + 1
         /\ outcome' = outcome
    ELSE /\ pc' = "idle"
         /\ position' = 0
         /\ outcome' = [pass |-> pass, result |-> "returned", exc |-> "none"]

\* An exception no handler catches leaves the pass, and the process with it.
Raise(pass, exc) ==
    /\ pc' = "idle"
    /\ position' = 0
    /\ outcome' = [pass |-> pass, result |-> "raised", exc |-> exc]

\* The locals of downloader are gone once it is left.
DropLocals ==
    /\ resume_byte_pos' = None
    /\ mode' = "none"
    /\ body' = <<>>
    /\ before' = Absent

Url == urls[position + 1]
Name == file_names[position + 1]

\* history: how a fetch stopped after open leaves the file of this position.
StopClass ==
    IF Len(fs[Name].data) < Len(remote[Url])
    THEN IF IsPrefix(fs[Name].data, remote[Url]) THEN "prefix" ELSE "stale"
    ELSE "none"

\* ------------------------------------------------------------ download_file
\* Variant: an existing file is always taken for incomplete.
Decision_AlwaysResume(f, file_size_online) ==
    IF f.exists THEN "resume" ELSE "fresh"

\* Variant: an existing file of another size is replaced, not resumed.
Decision_NeverResume(f, file_size_online) ==
    IF f.exists /\ file_size_online = Len(f.data) THEN "skip" ELSE "fresh"

\* Variant: an existing file is resumed only when the remote is larger.
Decision_ResumeIfSmaller(f, file_size_online) ==
    IF f.exists
    THEN IF file_size_online > Len(f.data) THEN "resume" ELSE "skip"
    ELSE "fresh"

\* download_file's choice between skipping, resuming and starting afresh, from
\* the destination file and the probed remote size.
Decision(f, file_size_online) ==
    IF f.exists
    THEN IF file_size_online # Len(f.data) THEN "resume" ELSE "skip"
    ELSE "fresh"

\* download(): the loop starts at position 0; an empty list returns at once.
Download ==
    /\ pc = "idle"
    /\ IF Len(urls) = 0
       THEN /\ pc' = "idle"
            /\ outcome' = [pass |-> "download", result |-> "returned", exc |-> "none"]
       ELSE /\ pc' = "download_file"
            /\ outcome' = NoOutcome
    /\ position' = 0
    /\ reqs' = <<>>
    /\ dmsg' = NoReport
    /\ UNCHANGED <<helper, config, fs, resume_byte_pos, mode, body, vres, before, stopped>>

\* download_file(position) with a HEAD request that is answered: it skips the
\* item, or calls downloader with the local size or with no offset.
DownloadFile ==
    /\ pc = "download_file"
    /\ LET d == Decision(fs[Name], content_length(Url))
       IN  /\ reqs' = <<HeadReq(Url)>>
           /\ before' = IF d = "skip" THEN Absent ELSE fs[Name]
           /\ CASE d = "skip" ->
                    /\ dmsg' = [dmsg EXCEPT ![position + 1] = "DOWNLOAD_COMPLETE_MSG"]
                    /\ Advance("download", "download_file")
                    /\ resume_byte_pos' = None
                    /\ stopped' = stopped
                [] d = "resume" ->
                    /\ dmsg' = [dmsg EXCEPT ![position + 1] = "DOWNLOAD_INCOMPLETE_WRN"]
                    /\ pc' = "downloader"
                    /\ resume_byte_pos' = Len(fs[Name].data)
                    /\ UNCHANGED <<position, outcome, stopped>>
                [] d = "fresh" ->
                    /\ dmsg' = [dmsg EXCEPT ![position + 1] = "DOWNLOAD_START_MSG"]
                    /\ pc' = "downloader"
                    /\ resume_byte_pos' = None
                    /\ UNCHANGED <<position, outcome, stopped>>
    /\ UNCHANGED <<helper, config, fs, mode, body, vres>>

\* requests.head of download_file cannot connect: ConnectionError, which neither
\* download_file nor download() catches.
DownloadFileHeadFails ==
    /\ pc = "download_file"
    /\ reqs' = <<HeadReq(Url)>>
    /\ Raise("download", "ConnectionError")
    /\ DropLocals
    /\ UNCHANGED <<helper, config, fs, dmsg, vres, stopped>>

\* --------------------------------------------------------------- downloader
\* Variant: the Range header starts one byte late.
resume_header_OffByOne(resume) == IF Truthy(resume) THEN resume + 1 ELSE None

\* The Range offset downloader sends: bytes=<resume_byte_pos>- when
\* resume_byte_pos is truthy, no Range header otherwise.
resume_header(resume) == IF Truthy(resume) THEN resume ELSE None

\* Variant: the file is always opened for append.
open_mode_Append(resume) == "ab"

\* Variant: the file is always truncated.
open_mode_Truncate(resume) == "wb"

\* Variant: the mode is chosen by "is not None" instead of truthiness.
open_mode_NotNone(resume) == IF resume # None THEN "ab" ELSE "wb"

\* The mode downloader opens the destination file in.
open_mode(resume) == IF Truthy(resume) THEN "ab" ELSE "wb"

\* open(file, mode): "wb" creates or truncates, "ab" creates or keeps.
Open(f, m) == IF m = "wb" THEN File(<<>>) ELSE File(f.data)

\* downloader up to the start of the stream: HEAD, GET with the resume header,
\* open the destination file.
Downloader ==
    /\ pc = "downloader"
    /\ \E b \in ResponseBodies(Url, resume_header(resume_byte_pos)) :
          /\ Len(Open(fs[Name], open_mode(resume_byte_pos)).data) + Len(b) <= MaxFile
          /\ body' = b
    /\ reqs' = reqs \o <<HeadReq(Url), GetReq(Url, resume_header(resume_byte_pos))>>
    /\ mode' = open_mode(resume_byte_pos)
    /\ fs' = [fs EXCEPT ![Name] = Open(fs[Name], open_mode(resume_byte_pos))]
    /\ pc' = "stream"
    /\ UNCHANGED <<helper, config, position, resume_byte_pos, dmsg, vres, outcome,
                   before, stopped>>

\* requests.head or requests.get of downloader cannot connect: ConnectionError
\* before the file is opened.
DownloaderConnectFails ==
    /\ pc = "downloader"
    /\ reqs' = reqs \o <<HeadReq(Url)>>
    /\ Raise("download", "ConnectionError")
    /\ DropLocals
    /\ UNCHANGED <<helper, config, fs, dmsg, vres, stopped>>

\* One turn of the loop over r.iter_content: write the next chunk.
WriteChunk ==
    /\ pc = "stream"
    /\ body # <<>>
    /\ fs' = [fs EXCEPT ![Name] = File(fs[Name].data \o Take(body, ChunkSize))]
    /\ body' = Drop(body, ChunkSize)
    /\ UNCHANGED <<helper, config, pc, position, resume_byte_pos, mode, reqs, dmsg, vres,
                   outcome, before, stopped>>

\* The stream is exhausted: the file is closed, downloader and download_file
\* return, and download() goes on with the next position.
StreamEnd ==
    /\ pc = "stream"
    /\ body = <<>>
    /\ Advance("download", "download_file")
    /\ DropLocals
    /\ stopped' = [stopped EXCEPT ![position + 1] =
                      IF @ = "none" THEN "none" ELSE "healed"]
    /\ UNCHANGED <<helper, config, fs, reqs, dmsg, vres>>

\* Variant: the transport error is caught and the batch goes on.
StreamFails_Caught ==
    /\ pc = "stream"
    /\ body # <<>>
    /\ Advance("download", "download_file")
    /\ DropLocals
    /\ stopped' = [stopped EXCEPT ![position + 1] = StopClass]
    /\ UNCHANGED <<helper, config, fs, reqs, dmsg, vres>>

\* The transport fails while the body is streamed: the error leaves the loop,
\* the with block closes the file with what was written.
StreamFails ==
    /\ pc = "stream"
    /\ body # <<>>
    /\ Raise("download", "ConnectionError")
    /\ DropLocals
    /\ stopped' = [stopped EXCEPT ![position + 1] = StopClass]
    /\ UNCHANGED <<helper, config, fs, reqs, dmsg, vres>>

\* The process is terminated from outside while a pass runs.
Terminate ==
    /\ pc # "idle"
    /\ pc' = "idle"
    /\ position' = 0
    /\ outcome' = [pass |-> IF pc = "validate_file" THEN "validate" ELSE "download",
                    result |-> "killed", exc |-> "none"]
    /\ DropLocals
    /\ stopped' = IF pc = "stream"
                  THEN [stopped EXCEPT ![position + 1] = StopClass]
                  ELSE stopped
    /\ UNCHANGED <<helper, config, fs, reqs, dmsg, vres>>

\* ------------------------------------------------------------ validate_file
\* Variant: the file is opened before the hash is looked up.
validate_result_OpenFirst(hashes, pos, f) ==
    IF ~f.exists
    THEN [tag |-> "none", exc |-> "FileNotFoundError"]
    ELSE IF hashes.isNone
    THEN [tag |-> "none", exc |-> "TypeError"]
    ELSE IF pos >= Len(hashes.list)
    THEN [tag |-> "NoHashAvailable", exc |-> "none"]
    ELSE IF hexdigest(ReadLoop(ShaInit, f.data)) = hashes.list[pos + 1]
    THEN [tag |-> "Validated", exc |-> "none"]
    ELSE [tag |-> "HashMismatch", exc |-> "none"]

\* Variant: an existing file with a listed hash is reported valid unread.
validate_result_NoCompare(hashes, pos, f) ==
    IF hashes.isNone
    THEN [tag |-> "none", exc |-> "TypeError"]
    ELSE IF pos >= Len(hashes.list)
    THEN [tag |-> "NoHashAvailable", exc |-> "none"]
    ELSE IF ~f.exists
    THEN [tag |-> "none", exc |-> "FileNotFoundError"]
    ELSE [tag |-> "Validated", exc |-> "none"]

\* validate_file(position) on hash list `hashes` and destination file f: the
\* outcome it reports, or the exception that leaves it.
\*   self.url_hashes[position]: TypeError on None, IndexError (caught) past the
\*   end of the list; open(file, 'rb'): FileNotFoundError on a missing file;
\*   then the digest of the chunks read is compared with the hash.
validate_result(hashes, pos, f) ==
    IF hashes.isNone
    THEN [tag |-> "none", exc |-> "TypeError"]
    ELSE IF pos >= Len(hashes.list)
    THEN [tag |-> "NoHashAvailable", exc |-> "none"]
    ELSE IF ~f.exists
    THEN [tag |-> "none", exc |-> "FileNotFoundError"]
    ELSE IF hexdigest(ReadLoop(ShaInit, f.data)) = hashes.list[pos + 1]
    THEN [tag |-> "Validated", exc |-> "none"]
    ELSE [tag |-> "HashMismatch", exc |-> "none"]

\* validate(): the loop starts at position 0.
Validate ==
    /\ pc = "idle"
    /\ IF Len(urls) = 0
       THEN /\ pc' = "idle"
            /\ outcome' = [pass |-> "validate", result |-> "returned", exc |-> "none"]
       ELSE /\ pc' = "validate_file"
            /\ outcome' = NoOutcome
    /\ position' = 0
    /\ vres' = NoReport
    /\ UNCHANGED <<helper, config, fs, resume_byte_pos, mode, body, reqs, dmsg, before,
                   stopped>>

\* Variant: a file whose hash does not match is removed.
ValidateFile_DeletesCorrupt ==
    /\ pc = "validate_file"
    /\ LET r == validate_result(url_hashes, position, fs[Name])
       IN  IF r.exc # "none"
           THEN /\ Raise("validate", r.exc)
                /\ vres' = vres
                /\ fs' = fs
           ELSE /\ Advance("validate", "validate_file")
                /\ vres' = [vres EXCEPT ![position + 1] = r.tag]
                /\ fs' = IF r.tag = "HashMismatch"
                         THEN [fs EXCEPT ![Name] = Absent]
                         ELSE fs
    /\ UNCHANGED <<helper, config, resume_byte_pos, mode, body, reqs, dmsg, before,
                   stopped>>

\* validate_file(position), whole: it reports its outcome and validate() goes
\* on, or an exception leaves the pass. The file is only read.
ValidateFile ==
    /\ pc = "validate_file"
    /\ LET r == validate_result(url_hashes, position, fs[Name])
       IN  IF r.exc # "none"
           THEN /\ Raise("validate", r.exc)
                /\ vres' = vres
           ELSE /\ Advance("validate", "validate_file")
                /\ vres' = [vres EXCEPT ![position + 1] = r.tag]
    /\ UNCHANGED <<helper, config, fs, resume_byte_pos, mode, body, reqs, dmsg, before,
                   stopped>>

\* ------------------------------------------------------------ specification
Next ==
    \/ Download
    \/ DownloadFile
    \/ DownloadFileHeadFails
    \/ Downloader
    \/ DownloaderConnectFails
    \/ WriteChunk
    \/ StreamEnd
    \/ StreamFails
    \/ Terminate
    \/ Validate
    \/ ValidateFile

Spec == Init /\ [][Next]_vars

\* ---------------------------------------------------------------- helpers
\* Variant: the docstring's strict comparison, "print text if verbose > thr".
print_if_Strict(verbose, thr, text) == IF verbose > thr THEN <<text>> ELSE <<>>

\* print_if(verbose, thr, text): the lines it prints.
print_if(verbose, thr, text) == IF verbose >= thr THEN <<text>> ELSE <<>>

\* warn_if(verbose, thr, text): the warnings it issues.
warn_if(verbose, thr, text) == IF verbose >= thr THEN <<text>> ELSE <<>>

Levels == 0..MaxVerbose

\* What session.get / session.post may do: answer with a response, fail with
\* requests.exceptions.ConnectionError, or fail with an exception that is no
\* ConnectionError (a read timeout).
SessionResults ==
    {[kind |-> "response", value |-> "r200"],
     [kind |-> "response", value |-> "r404"],
     [kind |-> "ConnectionError", value |-> "refused"],
     [kind |-> "ReadTimeout", value |-> "timed out"]}

\* The values a caller passes as return_on_failure.
Sentinels == {"None", "sentinel"}

\* Variant: the failure value is always None, whatever the caller passed.
safe_get_request_NoSentinel(r, verbose_level, warning_msg, return_on_failure, warning_thr, raw_err_thr) ==
    CASE r.kind = "response" ->
            [ret |-> r.value, raised |-> "none", warnings |-> <<>>]
      [] r.kind = "ConnectionError" ->
            [ret |-> "None", raised |-> "none",
             warnings |-> warn_if(verbose_level, warning_thr, warning_msg)
                            \o warn_if(verbose_level, raw_err_thr, r.value)]
      [] OTHER ->
            [ret |-> "none", raised |-> r.kind, warnings |-> <<>>]

\* safe_get_request, given what session.get does: the value returned, the
\* exception that leaves it, the warnings issued.
safe_get_request(r, verbose_level, warning_msg, return_on_failure, warning_thr, raw_err_thr) ==
    CASE r.kind = "response" ->
            [ret |-> r.value, raised |-> "none", warnings |-> <<>>]
      [] r.kind = "ConnectionError" ->
            [ret |-> return_on_failure, raised |-> "none",
             warnings |-> warn_if(verbose_level, warning_thr, warning_msg)
                            \o warn_if(verbose_level, raw_err_thr, r.value)]
      [] OTHER ->
            [ret |-> "none", raised |-> r.kind, warnings |-> <<>>]

\* safe_post_request, given what session.post does.
safe_post_request(r, verbose_level, warning_msg, return_on_failure, warning_thr, raw_err_thr) ==
    CASE r.kind = "response" ->
            [ret |-> r.value, raised |-> "none", warnings |-> <<>>]
      [] r.kind = "ConnectionError" ->
            [ret |-> return_on_failure, raised |-> "none",
             warnings |-> warn_if(verbose_level, warning_thr, warning_msg)
                            \o warn_if(verbose_level, raw_err_thr, r.value)]
      [] OTHER ->
            [ret |-> "none", raised |-> r.kind, warnings |-> <<>>]

main == <<urls, file_names, url_hashes, remote, server, fs, pc, position,
          resume_byte_pos, mode, body, reqs, dmsg, vres, outcome, before, stopped>>

\* A call print_if(verbose, thr, "text").
CallPrintIf ==
    /\ \E verbose \in Levels, thr \in Levels :
          helper' = [op |-> "print_if", verbose |-> verbose, thr |-> thr,
                     stdout |-> print_if(verbose, thr, "text"),
                     warnings |-> <<>>]
    /\ UNCHANGED main

\* A call warn_if(verbose, thr, "text").
CallWarnIf ==
    /\ \E verbose \in Levels, thr \in Levels :
          helper' = [op |-> "warn_if", verbose |-> verbose, thr |-> thr,
                     stdout |-> <<>>,
                     warnings |-> warn_if(verbose, thr, "text")]
    /\ UNCHANGED main

\* A call safe_get_request(session, url, timeout, verbose_level,
\* 'connection failed', return_on_failure, warning_thr, raw_err_thr).
CallSafeGet ==
    /\ \E r \in SessionResults, v \in Levels, wt \in Levels, rt \in Levels,
          rof \in Sentinels :
          helper' = [op |-> "safe_get_request", session |-> r, verbose |-> v,
                     warning_thr |-> wt, raw_err_thr |-> rt,
                     return_on_failure |-> rof,
                     out |-> safe_get_request(r, v, "connection failed", rof, wt, rt)]
    /\ UNCHANGED main

\* A call safe_post_request(...) with the same parameters.
CallSafePost ==
    /\ \E r \in SessionResults, v \in Levels, wt \in Levels, rt \in Levels,
          rof \in Sentinels :
          helper' = [op |-> "safe_post_request", session |-> r, verbose |-> v,
                     warning_thr |-> wt, raw_err_thr |-> rt,
                     return_on_failure |-> rof,
                     out |-> safe_post_request(r, v, "connection failed", rof, wt, rt)]
    /\ UNCHANGED main

\* The helpers on their own: no SafeDownloader is at work (an empty batch in an
\* empty directory), the helpers are called in any order with any arguments.
HelperInit ==
    /\ file_names = <<>>
    /\ urls = <<>>
    /\ remote = <<>>
    /\ server = [length |-> TRUE, range |-> TRUE]
    /\ url_hashes = [isNone |-> TRUE, list |-> <<>>]
    /\ fs = [n \in Names |-> Absent]
    /\ pc = "idle"
    /\ position = 0
    /\ resume_byte_pos = None
    /\ mode = "none"
    /\ body = <<>>
    /\ reqs = <<>>
    /\ dmsg = <<>>
    /\ vres = <<>>
    /\ outcome = NoOutcome
    /\ before = Absent
    /\ stopped = <<>>
    /\ helper = NoCall

HelperNext ==
    \/ CallPrintIf
    \/ CallWarnIf
    \/ CallSafeGet
    \/ CallSafePost

HelperSpec == HelperInit /\ [][HelperNext]_vars

\* ================================================================== claims
LastReq(r) == r[Len(r)]
Here == position + 1

\* What downloader leaves in an absent file when the whole resource is
\* streamed into it chunk by chunk.
RECURSIVE WriteAll(_, _)
WriteAll(data, b) ==
    IF b = <<>> THEN data
    ELSE WriteAll(data \o Take(b, ChunkSize), Drop(b, ChunkSize))

FreshDownload(url) == File(WriteAll(<<>>, remote[url]))

\* C1: skip idempotence. Whenever download_file finds the destination file
\* with a size equal to the probed remote size, the call issues the HEAD probe
\* and no other request, does not enter downloader, and leaves every file as
\* it is; this holds at every call of every download() pass.
C1_SkipIdempotent ==
    [][(DownloadFile /\ fs[Name].exists
            /\ Len(fs[Name].data) = content_length(Url))
        => /\ reqs' = <<HeadReq(Url)>>
           /\ pc' \in {"download_file", "idle"}
           /\ fs' = fs
           /\ dmsg'[Here] = "DOWNLOAD_COMPLETE_MSG"]_vars

\* C1 witness: a download() pass returned after skipping a non-empty file to
\* which an earlier fetch had been healed, with the HEAD probe its only request.
C1_Witness ==
    /\ pc = "idle"
    /\ outcome = [pass |-> "download", result |-> "returned", exc |-> "none"]
    /\ dmsg[1] = "DOWNLOAD_COMPLETE_MSG"
    /\ reqs = <<HeadReq(urls[1])>>
    /\ Len(urls) = 1
    /\ fs[file_names[1]].data # <<>>
    /\ stopped[1] = "healed"

\* C2: resume correctness. When download_file found a file of L < R bytes that
\* is a prefix of the R-byte resource and the server honours Range, the end of
\* the transfer leaves a file of exactly R bytes, the same file a download into an
\* absent file produces.
C2_ResumeCorrect ==
    [][(StreamEnd /\ before.exists /\ server.range
            /\ Len(before.data) < Len(remote[Url])
            /\ IsPrefix(before.data, remote[Url]))
        => /\ fs'[Name] = FreshDownload(Url)
           /\ Len(fs'[Name].data) = Len(remote[Url])]_vars

\* C2 witness: a transfer resumed from a non-empty proper prefix has reached
\* the end of its stream on a server that honours Range.
C2_Witness ==
    /\ pc = "stream"
    /\ body = <<>>
    /\ mode = "ab"
    /\ server.range
    /\ before.exists
    /\ before.data # <<>>
    /\ Len(before.data) < Len(remote[Url])
    /\ IsPrefix(before.data, remote[Url])
    /\ fs[Name].data = remote[Url]

\* C3: fresh download. When the destination file is absent, download_file
\* calls downloader with no offset; downloader sends GET without Range and
\* opens the file truncating; at the end of the transfer the file exists and
\* holds the remote content; and validate_file on a file that holds the remote
\* content, with the digest of that content as expected hash, reports Validated.
C3_FreshDownload ==
    /\ [][(DownloadFile /\ ~fs[Name].exists)
            => pc' = "downloader" /\ resume_byte_pos' = None]_vars
    /\ [][(Downloader /\ ~before.exists)
            => /\ LastReq(reqs') = GetReq(Url, None)
               /\ mode' = "wb"
               /\ fs'[Name] = File(<<>>)]_vars
    /\ [][(StreamEnd /\ ~before.exists)
            => fs'[Name] = File(remote[Url])]_vars
    /\ [][(ValidateFile /\ fs[Name] = File(remote[Url])
                /\ ~url_hashes.isNone /\ position < Len(url_hashes.list)
                /\ url_hashes.list[Here] = OneShotDigest(remote[Url]))
            => vres'[Here] = "Validated" /\ outcome'.result # "raised"]_vars

\* C3 witness: validate() returned Validated for a non-empty file that the last
\* download() pass had started from scratch.
C3_Witness ==
    /\ pc = "idle"
    /\ outcome = [pass |-> "validate", result |-> "returned", exc |-> "none"]
    /\ dmsg[1] = "DOWNLOAD_START_MSG"
    /\ vres[1] = "Validated"
    /\ Len(fs[file_names[1]].data) = MaxLen
    /\ fs[file_names[1]].data = remote[urls[1]]

C5_Claimed ==
    [][(DownloadFileHeadFails \/ DownloaderConnectFails \/ StreamFails)
        => /\ outcome'.result # "raised"
           /\ position + 1 < Len(urls)
                => pc' = "download_file" /\ position' = position + 1]_vars

Honest == server.range /\ server.length

Unshared(i) == \A j \in 1..Len(file_names) : j # i => file_names[j] # file_names[i]

\* C6 as claimed: self-healing. After a fetch of an item was stopped with the
\* file open, leaving L < R bytes, on a server that honours Range and reports
\* content-length the next download_file of the item takes the size-mismatch
\* path, the end of its transfer leaves exactly the remote content, and the
\* download_file after that skips the item.
C6_Claimed ==
    /\ [][(DownloadFile /\ stopped[Here] \in {"prefix", "stale"} /\ Honest)
            => pc' = "downloader" /\ dmsg'[Here] = "DOWNLOAD_INCOMPLETE_WRN"]_vars
    /\ [][(StreamEnd /\ stopped[Here] \in {"prefix", "stale"} /\ Honest)
            => fs'[Name] = File(remote[Url])]_vars
    /\ [][(DownloadFile /\ stopped[Here] = "healed" /\ Honest)
            => pc' # "downloader" /\ fs' = fs]_vars

\* C6 as amended: the same, for an item whose file_name no other item of the
\* batch uses, and with the content of the file promised only when the L bytes
\* the stopped fetch left are a prefix of the remote content (as they are after
\* a fetch from scratch, and after a resumed fetch of a file that was a prefix).
C6_SelfHealing ==
    /\ [][(DownloadFile /\ stopped[Here] \in {"prefix", "stale"} /\ Honest
                /\ Unshared(Here))
            => /\ pc' = "downloader"
               /\ dmsg'[Here] = "DOWNLOAD_INCOMPLETE_WRN"
               /\ resume_byte_pos' = Len(fs[Name].data)]_vars
    /\ [][(StreamEnd /\ stopped[Here] = "prefix" /\ Honest /\ Unshared(Here))
            => fs'[Name] = File(remote[Url])]_vars
    /\ [][(DownloadFile /\ stopped[Here] = "healed" /\ Honest /\ Unshared(Here))
            => /\ pc' # "downloader"
               /\ fs' = fs
               /\ dmsg'[Here] = "DOWNLOAD_COMPLETE_MSG"]_vars

\* C6 witness: a stopped fetch had left a proper prefix, a later pass resumed
\* it by appending and reached the end of the stream with the remote content.
C6_Witness ==
    /\ pc = "stream"
    /\ body = <<>>
    /\ Honest
    /\ Unshared(Here)
    /\ stopped[Here] = "prefix"
    /\ mode = "ab"
    /\ fs[Name] = File(remote[Url])

\* C7 as claimed: graceful degradation. When the server sends no
\* content-length or ignores Range, a fetch for an existing non-empty file
\* opens the file truncating, and at the end of the transfer the file equals the
\* remote content.
C7_Claimed ==
    /\ [][(Downloader /\ before.exists /\ before.data # <<>>
                /\ (~server.length \/ ~server.range))
            => mode' = "wb" /\ fs'[Name] = File(<<>>)]_vars
    /\ [][(StreamEnd /\ before.exists /\ before.data # <<>>
                /\ (~server.length \/ ~server.range))
            => fs'[Name] = File(remote[Url])]_vars

\* C8: missing hash, short list. When url_hashes is a list and position is not
\* inside it, validate_file raises nothing, reports NoHashAvailable and touches
\* no file, also when the destination file does not exist.
C8_ShortHashList ==
    [][(ValidateFile /\ ~url_hashes.isNone /\ position >= Len(url_hashes.list))
        => /\ vres'[Here] = "NoHashAvailable"
           /\ outcome'.result # "raised"
           /\ fs' = fs]_vars

\* C8 witness: validate() returned, having reported NoHashAvailable for an item
\* whose destination file does not exist.
C8_Witness ==
    /\ pc = "idle"
    /\ outcome = [pass |-> "validate", result |-> "returned", exc |-> "none"]
    /\ ~url_hashes.isNone
    /\ \E i \in 1..Len(urls) :
          /\ i > Len(url_hashes.list)
          /\ vres[i] = "NoHashAvailable"
          /\ ~fs[file_names[i]].exists

\* C9 as claimed: missing hash, no list. With url_hashes left at its default
\* None, a validate() pass does not end by an exception, and when it has
\* returned it has reported NoHashAvailable for every item.
C9_Claimed ==
    (url_hashes.isNone /\ outcome.pass = "validate")
        => /\ outcome.result # "raised"
           /\ outcome.result = "returned"
                => \A i \in 1..Len(urls) : vres[i] = "NoHashAvailable"

\* C10: validation is a read-only overlay. validate_file changes no file and
\* issues no request, whatever it reports; download_file enters downloader
\* exactly when the file is absent or its size differs from the probed size,
\* whatever validate_file reported before; and a file of the right size for
\* which validate_file reported HashMismatch is skipped.
C10_ValidationReadOnly ==
    /\ [][ValidateFile
            => /\ UNCHANGED <<fs, reqs, body, mode, resume_byte_pos, dmsg>>
               /\ pc' \in {"validate_file", "idle"}]_vars
    /\ [][DownloadFile
            => (pc' = "downloader")
                 = (~fs[Name].exists \/ Len(fs[Name].data) # content_length(Url))]_vars
    /\ [][(DownloadFile /\ vres[Here] = "HashMismatch" /\ fs[Name].exists
                /\ Len(fs[Name].data) = content_length(Url))
            => /\ pc' # "downloader"
               /\ fs' = fs
               /\ dmsg'[Here] = "DOWNLOAD_COMPLETE_MSG"]_vars

\* C10 witness: a download() pass that followed a validate() pass has skipped
\* a file for which HashMismatch was reported, and the file is still there.
C10_Witness ==
    /\ pc = "idle"
    /\ outcome = [pass |-> "download", result |-> "returned", exc |-> "none"]
    /\ vres[1] = "HashMismatch"
    /\ dmsg[1] = "DOWNLOAD_COMPLETE_MSG"
    /\ fs[file_names[1]].exists
    /\ fs[file_names[1]].data # remote[urls[1]]

\* C11 as claimed: pass independence. validate() called before any download(),
\* with every destination file absent and a hash listed for every item, runs
\* over all items and does not raise.
C11_Claimed ==
    (/\ outcome.pass = "validate"
     /\ ~url_hashes.isNone
     /\ Len(url_hashes.list) = Len(urls)
     /\ \A n \in Names : ~fs[n].exists
     /\ reqs = <<>>
     /\ dmsg = NoReport)
        => outcome.result # "raised"

\* C12: validation outcome and determinism. For an item with a listed hash
\* and an existing file, validate_file reports Validated exactly when the
\* lowercase hex digest of the file's content equals the listed hash and
\* HashMismatch otherwise, and raises nothing: the outcome is a function of
\* (file content, expected hash) alone, the same at every call.
C12_ValidationOutcome ==
    [][(/\ ValidateFile
        /\ ~url_hashes.isNone
        /\ position < Len(url_hashes.list)
        /\ fs[Name].exists)
        => /\ vres'[Here] = (IF OneShotDigest(fs[Name].data) = url_hashes.list[Here]
                             THEN "Validated" ELSE "HashMismatch")
           /\ outcome'.result # "raised"]_vars

\* C12 witness: a validate() pass has reported HashMismatch for a file that
\* exists and whose hash is listed.
C12_Witness ==
    /\ outcome = [pass |-> "validate", result |-> "returned", exc |-> "none"]
    /\ ~url_hashes.isNone
    /\ Len(url_hashes.list) >= 1
    /\ fs[file_names[1]].exists
    /\ fs[file_names[1]].data # <<>>
    /\ vres[1] = "HashMismatch"

\* C13 as claimed: sequential batch order. A download() pass takes the
\* positions in increasing order, one at a time, and comes to its end only
\* from the last position, so that download_file has been invoked for every
\* index (a pass stopped from outside is left aside).
C13_Claimed ==
    [][/\ (position' # position /\ pc' # "idle") => position' = position + 1
       /\ (/\ pc # "idle"
           /\ pc' = "idle"
           /\ outcome'.pass = "download"
           /\ outcome'.result # "killed")
            => position = Len(urls) - 1]_vars

\* C14: non-atomic fetch on transport failure. When the transport fails in
\* mid-stream, no further request is issued, ConnectionError leaves download()
\* uncaught, and the destination file is left with exactly the chunks written
\* before the failure, after its previous content when the fetch resumed.
C14_TransportFailure ==
    [][StreamFails
        => /\ outcome' = [pass |-> "download", result |-> "raised",
                          exc |-> "ConnectionError"]
           /\ pc' = "idle"
           /\ reqs' = reqs
           /\ fs' = fs
           /\ fs'[Name].exists
           /\ \E b \in ResponseBodies(Url, resume_header(resume_byte_pos)) :
                 (IF mode = "ab" THEN before.data ELSE <<>>) \o b
                    = fs'[Name].data \o body
           /\ body # <<>>]_vars

\* C14 witness: a resumed fetch failed after it had appended a chunk to the
\* bytes that were on disk.
C14_Witness ==
    /\ outcome = [pass |-> "download", result |-> "raised", exc |-> "ConnectionError"]
    /\ Len(file_names) = 1
    /\ dmsg[1] = "DOWNLOAD_INCOMPLETE_WRN"
    /\ Len(fs[file_names[1]].data) = 2
    /\ reqs = <<HeadReq(urls[1]), HeadReq(urls[1]), GetReq(urls[1], 1)>>

\* C15: file lifecycle. In every step of every download() and validate() pass
\* a destination file that exists keeps existing and its previous content is
\* a prefix of its new content, so its size never decreases; the file is
\* opened in truncating mode only when it is absent or empty.
C15_FileLifecycle ==
    [][/\ \A n \in Names :
            fs[n].exists => fs'[n].exists /\ IsPrefix(fs[n].data, fs'[n].data)
       /\ (Downloader /\ mode' = "wb")
            => (~fs[Name].exists \/ fs[Name].data = <<>>)]_vars

\* C15 witness: a resumed fetch is appending to the bytes found on disk.
C15_Witness ==
    /\ pc = "stream"
    /\ mode = "ab"
    /\ before.exists
    /\ before.data # <<>>
    /\ IsPrefix(before.data, fs[Name].data)
    /\ Len(fs[Name].data) > Len(before.data)

\* C16 as claimed: when two items share a file_name, download_file of the
\* later item always goes on to downloader, to overwrite or append-resume the
\* file of the earlier item, whatever the two remote sizes.
C16_Claimed ==
    [][(/\ DownloadFile
        /\ position = 1
        /\ file_names[1] = file_names[2])
        => pc' = "downloader"]_vars

\* C16: name collision. When two items share a file_name, download_file of
\* the later item finds the file of the earlier one and treats it as its own:
\* it skips the item, leaving the earlier item's bytes, when the file's size
\* equals the probed size of the later resource, and calls downloader with the
\* file's size as resume offset otherwise; no error is reported.
C16_NameCollision ==
    [][(/\ DownloadFile
        /\ position = 1
        /\ file_names[1] = file_names[2])
        => /\ fs[Name].exists
           /\ outcome'.result # "raised"
           /\ IF Len(fs[Name].data) = content_length(Url)
              THEN /\ pc' # "downloader"
                   /\ fs' = fs
                   /\ dmsg'[Here] = "DOWNLOAD_COMPLETE_MSG"
              ELSE /\ pc' = "downloader"
                   /\ resume_byte_pos' = Len(fs[Name].data)
                   /\ dmsg'[Here] = "DOWNLOAD_INCOMPLETE_WRN"]_vars

\* C16 witness: a download() pass has ended with the later item skipped, and
\* the shared file holds the earlier resource, which differs from the later.
C16_Witness ==
    /\ Len(file_names) = 2
    /\ file_names[1] = file_names[2]
    /\ outcome = [pass |-> "download", result |-> "returned", exc |-> "none"]
    /\ dmsg[2] = "DOWNLOAD_COMPLETE_MSG"
    /\ remote[urls[1]] # remote[urls[2]]
    /\ fs[file_names[2]].data = remote[urls[1]]

\* C17: session-layer failure conversion. When session.get / session.post
\* fails with ConnectionError, safe_get_request and safe_post_request raise
\* nothing and return return_on_failure, issuing the warning message exactly
\* when verbose_level >= warning_thr and the raw error exactly when
\* verbose_level >= raw_err_thr, in that order; when the request is answered
\* they return the response and issue no warning.
C17_SessionFailureConversion ==
    helper.op \in {"safe_get_request", "safe_post_request"}
        => /\ helper.session.kind = "ConnectionError"
                => /\ helper.out.raised = "none"
                   /\ helper.out.ret = helper.return_on_failure
                   /\ helper.out.warnings =
                        (IF helper.verbose >= helper.warning_thr
                         THEN <<"connection failed">> ELSE <<>>)
                        \o (IF helper.verbose >= helper.raw_err_thr
                            THEN <<helper.session.value>> ELSE <<>>)
           /\ helper.session.kind = "response"
                => /\ helper.out.raised = "none"
                   /\ helper.out.ret = helper.session.value
                   /\ helper.out.warnings = <<>>

\* C17 witness: safe_get_request returned the caller's sentinel after a
\* ConnectionError, with the warning issued and the raw error held back.
C17_Witness ==
    /\ helper.op = "safe_get_request"
    /\ helper.session.kind = "ConnectionError"
    /\ helper.return_on_failure = "sentinel"
    /\ helper.out.ret = "sentinel"
    /\ helper.out.warnings = <<"connection failed">>
    /\ helper.verbose < helper.raw_err_thr

RECURSIVE Concat(_)
Concat(chunks) == IF chunks = <<>> THEN <<>> ELSE Head(chunks) \o Concat(Tail(chunks))

\* C18: streaming hash coverage. For every file on disk, of any size, the
\* read loop of validate_file ends, its chunks are non-empty, at most the read
\* size long and concatenate to the file's content, and the digest of the
\* chunks fed one by one equals the digest of the content hashed in one shot.
C18_StreamingHash ==
    \A n \in Names :
        fs[n].exists =>
            /\ Concat(ReadChunks(fs[n].data)) = fs[n].data
            /\ \A k \in DOMAIN ReadChunks(fs[n].data) :
                   /\ ReadChunks(fs[n].data)[k] # <<>>
                   /\ Len(ReadChunks(fs[n].data)[k]) <= ReadSize
            /\ hexdigest(ReadLoop(ShaInit, fs[n].data)) = OneShotDigest(fs[n].data)

\* C18 witness: validate_file has hashed a file of several chunks whose size
\* is an exact multiple of the read size.
C18_Witness ==
    /\ outcome = [pass |-> "validate", result |-> "returned", exc |-> "none"]
    /\ vres[1] \in {"Validated", "HashMismatch"}
    /\ Len(fs[file_names[1]].data) = 2 * ReadSize

====
